---- MODULE Spec2Model ----
(***************************************************************************)
(* EPS aggregation, P/E ratio calculation and sigma banding of             *)
(* src/src/factset_report_analyzer/analysis/sp500.py, and the chart        *)
(* extraction run of src/scripts/data_collection/extract_eps_charts.py.    *)
(*                                                                         *)
(* Dates are month indexes (year * 12 + month - 1): the code only compares *)
(* dates and reads their .year and .quarter, so the day of the month is    *)
(* not modelled.  EPS figures and prices are integers (the code's floats); *)
(* a P/E ratio is kept as the exact fraction Price / EPS.                  *)
(***************************************************************************)
EXTENDS Integers, Sequences, FiniteSets, TLC

VARIABLES
    _df_eps,    \* SP500._df_eps / the df_eps argument: the EPS report table
    _price_df,  \* SP500._price_df: the price table, rows of (Date, Price)
    _type,      \* SP500._type: 'forward' or 'trailing'
    ret,        \* the last operation called, its arguments and what it produced
    seen,       \* per mode, the EPS column of the first frame SP500.eps returned
    band,       \* the banding of one series: thresholds, sweep position, regions
    run         \* one run of extract_eps_charts.main: files, counters, position

vars == <<_df_eps, _price_df, _type, ret, seen, band, run>>

----------------------------------------------------------------------------
(* Dates: pd.Timestamp reduced to (year, month).                           *)

Date(y, m) == y * 12 + (m - 1)
Year(d) == d \div 12
Month(d) == (d % 12) + 1
Quarter(d) == ((Month(d) - 1) \div 3) + 1

----------------------------------------------------------------------------
(* quarter_mapper, sp500.py:204-227.                                       *)

\* f"Q{q}'{y:02d}"
QuarterLabel(q, y) ==
    "Q" \o ToString(q) \o "'" \o (IF y < 10 THEN "0" ELSE "") \o ToString(y)

\* The body of the loop for one offset i (lines 222-225).
QuarterAt(base_year, base_quarter, i) ==
    LET total_quarters == (base_year * 4 + base_quarter - 1) + i
        q == (total_quarters % 4) + 1
        y == (total_quarters \div 4) % 100
    IN  QuarterLabel(q, y)

\* A mapper that labels every offset with the base year (no carry).
quarter_mapper_no_carry(report_date, start, end) ==
    [k \in 1..(end - start + 1) |->
        QuarterLabel(((Quarter(report_date) - 1 + (start + k - 1)) % 4) + 1,
                     Year(report_date) % 100)]

\* range(start, end + 1) is empty when end < start.
quarter_mapper(report_date, start, end) ==
    LET base_quarter == Quarter(report_date)
        base_year == Year(report_date)
    IN  [k \in 1..(end - start + 1) |->
            QuarterAt(base_year, base_quarter, start + k - 1)]

----------------------------------------------------------------------------
(* The EPS table: a DataFrame with a Report_Date column and one column per *)
(* quarter label.  A cell is missing (NaN) or holds a number, possibly     *)
(* followed by a marker character.                                         *)

NA == [na |-> TRUE, num |-> 0, suffix |-> ""]
Num(v) == [na |-> FALSE, num |-> v, suffix |-> ""]
Starred(v) == [na |-> FALSE, num |-> v, suffix |-> "*"]

\* What a call produces: a float, None, or a raised exception.
Float(v) == [kind |-> "float", v |-> v]
None == [kind |-> "None", v |-> 0]
Raise(e) == [kind |-> e, v |-> 0]
Raised(r) == r.kind \notin {"float", "None"}

\* str(x).replace('*', '')
replace_star(suffix) == IF suffix = "*" THEN "" ELSE suffix

\* float(str(x).replace('*', '').strip()), line 278
to_float(cell) ==
    IF replace_star(cell.suffix) = "" THEN Float(cell.num) ELSE Raise("ValueError")

RECURSIVE SumSeq(_)
SumSeq(s) == IF s = << >> THEN 0 ELSE s[1] + SumSeq(Tail(s))

\* df.sort_values('Report_Date'): ascending; a row goes after the rows
\* already placed whose date is not later.
RECURSIVE sort_rows(_)
sort_rows(rows) ==
    IF rows = << >> THEN << >>
    ELSE LET r == rows[Len(rows)]
             before == sort_rows(SubSeq(rows, 1, Len(rows) - 1))
         IN  SelectSeq(before, LAMBDA x : x.Report_Date <= r.Report_Date)
             \o <<r>>
             \o SelectSeq(before, LAMBDA x : x.Report_Date > r.Report_Date)

sort_values(df) == [columns |-> df.columns, rows |-> sort_rows(df.rows)]

\* Lines 264-267: anything that is not 'forward' takes the trailing branch.
needed_offsets(type) ==
    IF type = "forward" THEN <<0, 3>> ELSE <<-4, -1>>

\* df_eps_sorted[df_eps_sorted['Report_Date'] <= price_date], line 270
candidates(rows, price_date) ==
    SelectSeq(rows, LAMBDA r : r.Report_Date <= price_date)

\* eps_filtered[col].dropna()
dropna(rows, col) == SelectSeq(rows, LAMBDA r : ~r.cells[col].na)

\* The first non-missing value instead of the last.
most_recent_first(rows, col) == dropna(rows, col)[1].cells[col]

\* eps_filtered[col].dropna().iloc[-1], line 278
most_recent(rows, col) ==
    LET present == dropna(rows, col) IN present[Len(present)].cells[col]

\* A sum of zero passes.
positive_or_none_weak(total) == IF total >= 0 THEN Float(total) ELSE None

\* sum(values) if sum(values) > 0 else None, line 284
positive_or_none(total) == IF total > 0 THEN Float(total) ELSE None

\* _calculate_eps_for_date, lines 257-286.  Besides the result, the locals
\* needed_quarters and values (each value with the column it came from).
_calculate_eps_for_date(df_eps_sorted, price_date, type) ==
    LET off == needed_offsets(type)
        needed_quarters == quarter_mapper(price_date, off[1], off[2])
        eps_candidates == candidates(df_eps_sorted.rows, price_date)
        missing_cols == {k \in 1..Len(needed_quarters) :
                            needed_quarters[k] \notin df_eps_sorted.columns}
        used == SelectSeq(needed_quarters,
                    LAMBDA col : /\ col \in df_eps_sorted.columns
                                 /\ dropna(eps_candidates, col) # << >>)
        parsed == [k \in 1..Len(used) |-> to_float(most_recent(eps_candidates, used[k]))]
        values == [k \in 1..Len(used) |-> [col |-> used[k], v |-> parsed[k].v]]
        nums == [k \in 1..Len(used) |-> parsed[k].v]
    IN  IF eps_candidates = << >>
        THEN [needed_quarters |-> needed_quarters, values |-> << >>, result |-> None]
        ELSE IF missing_cols # {}
        THEN \* eps_candidates[needed_quarters] raises for a label that is no column
             [needed_quarters |-> needed_quarters, values |-> << >>,
              result |-> Raise("KeyError")]
        ELSE IF \E k \in 1..Len(used) : Raised(parsed[k])
        THEN [needed_quarters |-> needed_quarters, values |-> << >>,
              result |-> Raise("ValueError")]
        ELSE [needed_quarters |-> needed_quarters, values |-> values,
              result |-> IF Len(nums) = 4 THEN positive_or_none(SumSeq(nums)) ELSE None]

\* calculate_eps_sum, lines 230-254: the series of results, or the first
\* exception raised while building it.
calculate_eps_sum(df_eps, dates, type) ==
    LET df_eps_sorted == sort_values(df_eps)
        results == [k \in 1..Len(dates) |->
                       _calculate_eps_for_date(df_eps_sorted, dates[k], type).result]
        failed == {k \in 1..Len(dates) : Raised(results[k])}
    IN  IF failed # {}
        THEN [kind |-> results[CHOOSE k \in failed : \A j \in failed : k <= j].kind,
              series |-> << >>]
        ELSE [kind |-> "Series", series |-> results]

----------------------------------------------------------------------------
(* Bounds and input sets.                                                  *)

MaxOffset == 5

MapperDates ==
    { Date(2023, 1), Date(2023, 6), Date(2024, 10), Date(2024, 12),
      Date(1999, 11), Date(2000, 2), Date(2099, 12) }

\* The table of spec section 8: one report of 2023-01-01 with Q1'23..Q4'23.
ExampleTable ==
    [columns |-> {"Q1'23", "Q2'23", "Q3'23", "Q4'23"},
     rows |-> << [Report_Date |-> Date(2023, 1),
                  cells |-> [c \in {"Q1'23", "Q2'23", "Q3'23", "Q4'23"} |->
                               [na |-> FALSE,
                                num |-> CASE c = "Q1'23" -> 50
                                          [] c = "Q2'23" -> 51
                                          [] c = "Q3'23" -> 52
                                          [] OTHER -> 53,
                                suffix |-> ""]]] >>]

NoCall == [op |-> "none"]
NoBand == [pc |-> "none"]
NoRun == [pc |-> "none"]
NothingSeen == [t \in {"forward", "trailing"} |-> [kind |-> "none"]]

MaxReports == 2
MaxDates == 1

\* Report dates: two reports in Q1'23 and one in Q3'23.
ReportMonths == { Date(2023, 1), Date(2023, 2), Date(2023, 7) }

\* Query (price) dates in Q1'23, Q2'23 and Q3'23.
QueryMonths == { Date(2023, 1), Date(2023, 3), Date(2023, 6), Date(2023, 8) }

Types == {"forward", "trailing"}

\* A report carries the quarters from four before to three after its own.
CarriedOffsets == -4..3

BaseValues == {-1, 1}

\* Which carried quarters of a report are missing and which are marked.
Shapes ==
    { [hole |-> {}, star |-> {}],
      [hole |-> {1}, star |-> {}],
      [hole |-> {-1, 0}, star |-> {}],
      [hole |-> {}, star |-> {-2, 0, 2}],
      [hole |-> CarriedOffsets, star |-> {}] }

Templates == [v : BaseValues, shape : Shapes]

CarriedLabels(d) == {QuarterAt(Year(d), Quarter(d), k) : k \in CarriedOffsets}

\* The cell of the report of date d for a label: the base value plus a part
\* that depends on the quarter, so that different windows sum differently.
CellOf(d, t, label) ==
    IF label \notin CarriedLabels(d) THEN NA
    ELSE LET k == CHOOSE k \in CarriedOffsets : QuarterAt(Year(d), Quarter(d), k) = label
             n == t.v + ((Year(d) * 4 + Quarter(d) - 1 + k) % 3)
         IN  IF k \in t.shape.hole THEN NA
             ELSE IF k \in t.shape.star THEN Starred(n)
             ELSE Num(n)

RECURSIVE SortedSeq(_)
SortedSeq(S) ==
    IF S = {} THEN << >>
    ELSE LET m == CHOOSE x \in S : \A y \in S : x <= y
         IN  <<m>> \o SortedSeq(S \ {m})

\* The table read from the reports of dates D, report d filled from f[d]:
\* one column per label some report carries, rows in date order.
TableOf(D, f) ==
    LET columns == UNION {CarriedLabels(d) : d \in D}
        ds == SortedSeq(D)
    IN  [columns |-> columns,
         rows |-> [k \in 1..Len(ds) |->
                     [Report_Date |-> ds[k],
                      cells |-> [c \in columns |-> CellOf(ds[k], f[ds[k]], c)]]]]

Tables ==
    UNION { {TableOf(D, f) : f \in [D -> Templates]} :
            D \in {S \in SUBSET ReportMonths : Cardinality(S) <= MaxReports} }

Perms(n) == {p \in [1..n -> 1..n] : \A i, j \in 1..n : p[i] = p[j] => i = j}

Permuted(df, p) ==
    [columns |-> df.columns, rows |-> [k \in 1..Len(df.rows) |-> df.rows[p[k]]]]

DateSeqs == UNION {[1..n -> QueryMonths] : n \in 0..MaxDates}

----------------------------------------------------------------------------
(* Specification of the aggregator: one call on a table drawn from the     *)
(* input sets.                                                             *)

InitAgg ==
    /\ _df_eps \in Tables \cup {ExampleTable}
    /\ _price_df = << >>
    /\ _type = "forward"
    /\ ret = NoCall
    /\ seen = NothingSeen
    /\ band = NoBand
    /\ run = NoRun

CallCalculateEpsForDate ==
    /\ ret = NoCall
    /\ \E price_date \in QueryMonths, type \in Types :
          LET r == _calculate_eps_for_date(_df_eps, price_date, type)
          IN  ret' = [op |-> "_calculate_eps_for_date",
                      price_date |-> price_date, type |-> type,
                      needed_quarters |-> r.needed_quarters,
                      values |-> r.values, result |-> r.result]
    /\ UNCHANGED <<_df_eps, _price_df, _type, seen, band, run>>

CallCalculateEpsSum ==
    /\ ret = NoCall
    /\ \E p \in Perms(Len(_df_eps.rows)), dates \in DateSeqs, type \in Types :
          ret' = [op |-> "calculate_eps_sum", dates |-> dates, type |-> type,
                  result |-> calculate_eps_sum(Permuted(_df_eps, p), dates, type)]
    /\ UNCHANGED <<_df_eps, _price_df, _type, seen, band, run>>

NextAgg == CallCalculateEpsForDate \/ CallCalculateEpsSum

SpecAgg == InitAgg /\ [][NextAgg]_vars

----------------------------------------------------------------------------
(* Specification of the quarter mapper alone.                              *)

InitMapper ==
    /\ _df_eps = ExampleTable
    /\ _price_df = << >>
    /\ _type = "forward"
    /\ ret = NoCall
    /\ seen = NothingSeen
    /\ band = NoBand
    /\ run = NoRun

CallQuarterMapper ==
    /\ ret = NoCall
    /\ \E d \in MapperDates, start \in (-MaxOffset)..MaxOffset, end \in (-MaxOffset)..MaxOffset :
          ret' = [op |-> "quarter_mapper", report_date |-> d,
                  start |-> start, end |-> end,
                  quarters |-> quarter_mapper(d, start, end)]
    /\ UNCHANGED <<_df_eps, _price_df, _type, seen, band, run>>

NextMapper == CallQuarterMapper

SpecMapper == InitMapper /\ [][NextMapper]_vars

----------------------------------------------------------------------------
(* C7 *)

AllQuarters == {<<q, y>> : q \in 1..4, y \in 0..99}

\* The calendar quarter after <<q, y>>, two-digit year.
QuarterAfter(qy) ==
    IF qy[1] = 4 THEN <<1, (qy[2] + 1) % 100>> ELSE <<qy[1] + 1, qy[2]>>

\* The (quarter, two-digit year) a label denotes.
Denoted(label) == {qy \in AllQuarters : QuarterLabel(qy[1], qy[2]) = label}

Follows(l1, l2) ==
    \E qy \in Denoted(l1) : Denoted(l2) = {QuarterAfter(qy)}

\* C7: for start <= end, quarter_mapper returns end-start+1 labels, each the
\* calendar quarter right after the previous one (the two-digit year steps
\* exactly at Q4 -> Q1, read backwards at Q1 -> Q4), and the label at offset
\* 0 is the date's own quarter.
C7_MapperConsecutive ==
    (ret.op = "quarter_mapper" /\ ret.start <= ret.end) =>
        /\ Len(ret.quarters) = ret.end - ret.start + 1
        /\ \A k \in 1..Len(ret.quarters) : Cardinality(Denoted(ret.quarters[k])) = 1
        /\ \A k \in 1..(Len(ret.quarters) - 1) :
              Follows(ret.quarters[k], ret.quarters[k + 1])
        /\ (ret.start <= 0 /\ 0 <= ret.end) =>
              ret.quarters[1 - ret.start] =
                  QuarterLabel(Quarter(ret.report_date), Year(ret.report_date) % 100)

\* The example of the spec: offsets [0,1] from a Q4'24 date.
C7_Witness ==
    /\ ret.op = "quarter_mapper"
    /\ ret.report_date = Date(2024, 12)
    /\ ret.start = 0 /\ ret.end = 1
    /\ ret.quarters = <<"Q4'24", "Q1'25">>

\* Negative offsets crossing a year boundary backwards.
C7_WitnessBack ==
    /\ ret.op = "quarter_mapper"
    /\ ret.report_date = Date(2023, 1)
    /\ ret.start = -4 /\ ret.end = -1
    /\ ret.quarters = <<"Q1'22", "Q2'22", "Q3'22", "Q4'22">>

----------------------------------------------------------------------------
(* The SP500 object, sp500.py:28-201.                                      *)

MaxPrices == 2

PriceBases == {90, 100}

\* The arguments set_type and calculate_eps_sum are called with.
TypeArgs == {"forward", "trailing", "bogus"}

\* The tables SP500 is loaded with: at least one report (_load_data takes
\* the earliest Report_Date), every report filled the same way.
StoredTables ==
    { TableOf(D, [d \in D |-> t]) :
        D \in {S \in SUBSET ReportMonths : S # {} /\ Cardinality(S) <= MaxReports},
        t \in Templates } \cup {ExampleTable}

\* The price history from the earliest report on, in date order.
PriceTables(df) ==
    { [k \in 1..Cardinality(P) |-> [Date |-> SortedSeq(P)[k], Price |-> base + k]] :
        P \in {S \in SUBSET {d \in QueryMonths : d >= df.rows[1].Report_Date} :
                  Cardinality(S) <= MaxPrices},
        base \in PriceBases }

NaN == [kind |-> "NaN", num |-> 0, den |-> 1]

\* price_data['Price'] / price_data['EPS'], line 160: element-wise float
\* division; a missing EPS gives a missing ratio and a zero EPS gives inf.
divide(price, eps) ==
    IF eps.kind = "None" THEN NaN
    ELSE IF eps.v = 0 THEN [kind |-> "inf", num |-> price, den |-> 0]
    ELSE [kind |-> "ratio", num |-> price, den |-> eps.v]

Dates(price_df) == [k \in 1..Len(price_df) |-> price_df[k].Date]

\* The eps property, lines 124-142.
eps(df_eps, price_df, type) ==
    LET dates == Dates(price_df)
        eps_values == calculate_eps_sum(df_eps, dates, type)
    IN  IF eps_values.kind # "Series" THEN [kind |-> eps_values.kind, rows |-> << >>]
        ELSE [kind |-> "DataFrame",
              rows |-> [k \in 1..Len(dates) |->
                          [Date |-> dates[k], EPS |-> eps_values.series[k]]]]

\* The pe_ratio property, lines 144-162.
pe_ratio(df_eps, price_df, type) ==
    LET dates == Dates(price_df)
        eps_values == calculate_eps_sum(df_eps, dates, type)
    IN  IF eps_values.kind # "Series" THEN [kind |-> eps_values.kind, rows |-> << >>]
        ELSE [kind |-> "DataFrame",
              rows |-> [k \in 1..Len(price_df) |->
                          [Date |-> price_df[k].Date,
                           Price |-> price_df[k].Price,
                           EPS |-> eps_values.series[k],
                           PE_Ratio |-> divide(price_df[k].Price, eps_values.series[k]),
                           Type |-> type]]]

\* pe_ratio working on the stored frame itself.
stored_price_aliased(price_df, frame) ==
    IF frame.kind = "DataFrame" THEN frame.rows ELSE price_df

\* Line 158: price_data is a copy, the stored frame keeps its two columns.
stored_price_after(price_df, frame) == price_df

\* set_type, lines 56-69: the new mode and what the call produced.
set_type(current, type) ==
    IF type \notin {"forward", "trailing"}
    THEN [type |-> current, result |-> Raise("ValueError")]
    ELSE [type |-> type, result |-> None]

\* The EPS column of a returned frame.
EpsColumn(frame) ==
    [kind |-> frame.kind,
     series |-> [k \in 1..Len(frame.rows) |-> frame.rows[k].EPS]]

Remember(frame, type) ==
    IF seen[type].kind = "none"
    THEN [seen EXCEPT ![type] = EpsColumn(frame)]
    ELSE seen

InitSP500 ==
    /\ _df_eps \in StoredTables
    /\ _price_df \in PriceTables(_df_eps)
    /\ _type = "forward"
    /\ ret = NoCall
    /\ seen = NothingSeen
    /\ band = NoBand
    /\ run = NoRun

SetType ==
    \E type \in TypeArgs :
        LET r == set_type(_type, type)
        IN  /\ _type' = r.type
            /\ ret' = [op |-> "set_type", arg |-> type, result |-> r.result]
            /\ UNCHANGED <<_df_eps, _price_df, seen, band, run>>

Eps ==
    LET frame == eps(_df_eps, _price_df, _type)
    IN  /\ ret' = [op |-> "eps", type |-> _type, result |-> frame]
        /\ seen' = Remember(frame, _type)
        /\ UNCHANGED <<_df_eps, _price_df, _type, band, run>>

PeRatio ==
    LET frame == pe_ratio(_df_eps, _price_df, _type)
    IN  /\ ret' = [op |-> "pe_ratio", type |-> _type, result |-> frame]
        /\ _price_df' = stored_price_after(_price_df, frame)
        /\ UNCHANGED <<_df_eps, _type, seen, band, run>>

\* calculate_eps_sum called directly on the loaded table and price dates.
CalculateEpsSum ==
    \E type \in TypeArgs :
        /\ ret' = [op |-> "calculate_eps_sum", dates |-> Dates(_price_df),
                   type |-> type,
                   result |-> calculate_eps_sum(_df_eps, Dates(_price_df), type)]
        /\ UNCHANGED <<_df_eps, _price_df, _type, seen, band, run>>

NextSP500 == SetType \/ Eps \/ PeRatio \/ CalculateEpsSum

SpecSP500 == InitSP500 /\ [][NextSP500]_vars

----------------------------------------------------------------------------
(* Properties of the aggregator, stated on the table and not on the        *)
(* aggregator's own steps.                                                 *)

CellAt(df, i, label) ==
    IF label \in df.columns THEN df.rows[i].cells[label] ELSE NA

\* The reports dated on or before d.
OnOrBefore(df, d) == {i \in 1..Len(df.rows) : df.rows[i].Report_Date <= d}

\* Those of them that have a value for the label.
WithValue(df, d, label) == {i \in OnOrBefore(df, d) : ~CellAt(df, i, label).na}

LatestWithValue(df, d, label) ==
    CHOOSE i \in WithValue(df, d, label) :
        \A j \in WithValue(df, d, label) :
            df.rows[j].Report_Date <= df.rows[i].Report_Date

LatestValue(df, d, label) == CellAt(df, LatestWithValue(df, d, label), label).num

LatestReportDate(df, d) ==
    CHOOSE x \in {df.rows[i].Report_Date : i \in OnOrBefore(df, d)} :
        \A i \in OnOrBefore(df, d) : df.rows[i].Report_Date <= x

IsCall == ret.op = "_calculate_eps_for_date"
IsSum == ret.op = "calculate_eps_sum"

\* C1: on the example table, the forward aggregate for 2023-06-01 is 206.
C1_ExampleIs206 ==
    /\ (IsCall /\ _df_eps = ExampleTable
          /\ ret.price_date = Date(2023, 6) /\ ret.type = "forward")
       => ret.result = Float(206)
    /\ (IsSum /\ _df_eps = ExampleTable
          /\ ret.dates = <<Date(2023, 6)>> /\ ret.type = "forward")
       => ret.result = [kind |-> "Series", series |-> <<Float(206)>>]

\* C2: when fewer than 4 of the needed labels have a value among the reports
\* on or before the query date (the value missing in each of them, or the
\* label no column at all), the result is None: no partial sum, no exception.
C2_FewerThanFourIsNone ==
    IsCall =>
        LET resolved == {k \in 1..Len(ret.needed_quarters) :
                            WithValue(_df_eps, ret.price_date, ret.needed_quarters[k]) # {}}
        IN  Cardinality(resolved) < 4 => ret.result = None

\* C3: the needed quarters are offsets 0..3 (forward) or -4..-1 (trailing)
\* from the quarter of the latest report on or before the query date.
C3_OffsetsFromReportQuarter ==
    (IsCall /\ OnOrBefore(_df_eps, ret.price_date) # {}) =>
        LET report_date == LatestReportDate(_df_eps, ret.price_date)
        IN  ret.needed_quarters =
                IF ret.type = "forward" THEN quarter_mapper(report_date, 0, 3)
                ELSE quarter_mapper(report_date, -4, -1)

\* The sum the series entry k must be when it is a number: the latest values
\* of the quarters needed for dates[k].
LatestSum(df, d, type) ==
    LET off == IF type = "forward" THEN <<0, 3>> ELSE <<-4, -1>>
        needed == quarter_mapper(d, off[1], off[2])
    IN  SumSeq([k \in 1..Len(needed) |->
                  IF WithValue(df, d, needed[k]) = {} THEN 0
                  ELSE LatestValue(df, d, needed[k])])

\* C4: for each needed label the value used is the one of the latest report,
\* by Report_Date, on or before the query date that has a value for it; a
\* label is left out only when no such report has one.  A number in the
\* series of calculate_eps_sum is the sum of those values whatever the order
\* of the rows passed in.
C4_LatestValuePerQuarter ==
    /\ (IsCall /\ ~Raised(ret.result)) =>
          \A k \in 1..Len(ret.needed_quarters) :
              LET label == ret.needed_quarters[k]
                  uses == {j \in 1..Len(ret.values) : ret.values[j].col = label}
              IN  IF WithValue(_df_eps, ret.price_date, label) = {}
                  THEN uses = {}
                  ELSE /\ Cardinality(uses) = 1
                       /\ \A j \in uses :
                             ret.values[j].v = LatestValue(_df_eps, ret.price_date, label)
    /\ (IsSum /\ ret.result.kind = "Series") =>
          \A k \in 1..Len(ret.dates) :
              ret.result.series[k].kind = "float" =>
                  ret.result.series[k].v = LatestSum(_df_eps, ret.dates[k], ret.type)

\* Two reports on or before the query date give different values for one
\* needed quarter, and for another the later report has none but the earlier
\* one has.
C4_Witness ==
    /\ IsCall /\ ret.result.kind = "float"
    /\ \E k \in 1..4 :
          LET label == ret.needed_quarters[k]
              has == WithValue(_df_eps, ret.price_date, label)
          IN  \E i, j \in has :
                 /\ _df_eps.rows[i].Report_Date < _df_eps.rows[j].Report_Date
                 /\ CellAt(_df_eps, i, label).num # CellAt(_df_eps, j, label).num
    /\ \E k \in 1..4 :
          LET label == ret.needed_quarters[k]
              has == WithValue(_df_eps, ret.price_date, label)
          IN  \E i \in has : \E j \in OnOrBefore(_df_eps, ret.price_date) \ has :
                 _df_eps.rows[i].Report_Date < _df_eps.rows[j].Report_Date

\* The reports of df dated on or before d, each with the values it has.
ReportsUpTo(df, d) ==
    { [Report_Date |-> df.rows[i].Report_Date,
       has |-> {<<c, df.rows[i].cells[c]>> : c \in {x \in df.columns : ~df.rows[i].cells[x].na}}]
      : i \in OnOrBefore(df, d) }

\* C5: the result depends only on the reports dated on or before the query
\* date (a table that differs only in later reports gives the same result),
\* and with no such report it is None.
C5_OnlyReportsUpToQueryDate ==
    IsCall =>
        /\ OnOrBefore(_df_eps, ret.price_date) = {} => ret.result = None
        /\ \A T \in Tables :
              ReportsUpTo(T, ret.price_date) = ReportsUpTo(_df_eps, ret.price_date) =>
                  _calculate_eps_for_date(T, ret.price_date, ret.type).result = ret.result

\* C6: a result is None or a number > 0 that is the sum of exactly four
\* values, each taken from a distinct needed quarter of a report on or before
\* the query date; four values with a sum <= 0 give None.
C6_PositiveSumOfFourOrNone ==
    /\ (IsCall /\ ~Raised(ret.result)) =>
          /\ ret.result.kind = "float" =>
                /\ ret.result.v > 0
                /\ Len(ret.values) = 4
                /\ ret.result.v = SumSeq([j \in 1..Len(ret.values) |-> ret.values[j].v])
                /\ \A j \in 1..4 :
                      /\ ret.values[j].col = ret.needed_quarters[j]
                      /\ \E i \in WithValue(_df_eps, ret.price_date, ret.values[j].col) :
                            CellAt(_df_eps, i, ret.values[j].col).num = ret.values[j].v
          /\ (Len(ret.values) = 4
                /\ SumSeq([j \in 1..Len(ret.values) |-> ret.values[j].v]) <= 0)
             => ret.result = None
    /\ (IsSum /\ ret.result.kind = "Series") =>
          \A k \in 1..Len(ret.dates) :
              \/ ret.result.series[k] = None
              \/ ret.result.series[k].kind = "float" /\ ret.result.series[k].v > 0

\* Four values resolve and sum to exactly zero: the result is None.
C6_Witness ==
    /\ IsCall
    /\ Len(ret.values) = 4
    /\ SumSeq([j \in 1..Len(ret.values) |-> ret.values[j].v]) = 0
    /\ ret.result = None

----------------------------------------------------------------------------
(* Properties of the SP500 object.                                         *)

\* C8: a mode other than 'forward' and 'trailing' is an error wherever a
\* mode is accepted: set_type raises ValueError and keeps the current mode
\* (so the mode is always one of the two), calculate_eps_sum raises instead
\* of returning a series.
C8_InvalidModeFails ==
    [][ /\ _type' \in Types
        /\ (ret'.op = "set_type" /\ ret'.arg \notin Types) =>
              (ret'.result = Raise("ValueError") /\ _type' = _type)
        /\ (ret'.op = "calculate_eps_sum" /\ ret'.type \notin Types) =>
              ret'.result.kind # "Series" ]_vars

\* C9: pe_ratio returns one row per price date, in the order of the price
\* table, with the price, the aggregate for that date under the mode set,
\* and Price / EPS, which is missing where the aggregate is; nothing is
\* raised.
C9_PeRatioAligned ==
    ret.op = "pe_ratio" =>
        /\ ret.result.kind = "DataFrame"
        /\ Len(ret.result.rows) = Len(_price_df)
        /\ \A k \in 1..Len(ret.result.rows) :
              LET row == ret.result.rows[k]
              IN  /\ row.Date = _price_df[k].Date
                  /\ row.Price = _price_df[k].Price
                  /\ row.EPS = _calculate_eps_for_date(_df_eps, row.Date, _type).result
                  /\ IF row.EPS = None THEN row.PE_Ratio = NaN
                     ELSE /\ row.PE_Ratio.kind = "ratio"
                          /\ row.PE_Ratio.num * row.EPS.v = row.Price * row.PE_Ratio.den

----------------------------------------------------------------------------
(* Floating point.  The banding works on numpy float64 arrays; its sums,   *)
(* quotients, products and square roots are each rounded to the nearest    *)
(* representable number, ties to even.  The model keeps that arithmetic    *)
(* with a short significand: a number is an integer count of units of      *)
(* 1 / One, exact while it fits MantissaBits bits and otherwise rounded to *)
(* MantissaBits significant bits.                                          *)

MantissaBits == 3
FractionBits == 1

RECURSIVE Pow2(_)
Pow2(n) == IF n <= 0 THEN 1 ELSE 2 * Pow2(n - 1)

One == Pow2(FractionBits)

RECURSIVE BitLen(_)
BitLen(x) == IF x <= 0 THEN 0 ELSE 1 + BitLen(x \div 2)

\* The spacing of the representable numbers at magnitude t.
Spacing(t) == IF t < Pow2(MantissaBits) THEN 1 ELSE Pow2(BitLen(t) - MantissaBits)

\* a / b (a >= 0, b > 0) rounded to the nearest representable number.
RoundPos(a, b) ==
    LET s == Spacing(a \div b)
        q == a \div (b * s)
        r == a - q * b * s
    IN  IF 2 * r < b * s THEN q * s
        ELSE IF 2 * r > b * s THEN (q + 1) * s
        ELSE IF q % 2 = 0 THEN q * s ELSE (q + 1) * s

RoundRat(a, b) == IF a >= 0 THEN RoundPos(a, b) ELSE 0 - RoundPos(0 - a, b)

fadd(a, b) == RoundRat(a + b, 1)
fsub(a, b) == RoundRat(a - b, 1)
fmul(a, b) == RoundRat(a * b, One)
fdiv(a, b) == RoundRat(a * One, b)

\* The integer nearest to the square root of x >= 0.
NearestRoot(x) ==
    LET r == CHOOSE r \in 0..x : r * r <= x /\ x < (r + 1) * (r + 1)
    IN  IF x > r * r + r THEN r + 1 ELSE r

fsqrt(x) == RoundRat(NearestRoot(x * One), 1)

\* A series value: a number or nan.
nan == [nan |-> TRUE, x |-> 0]
F(x) == [nan |-> FALSE, x |-> x]

\* The sum of a float array left to right (arrays shorter than 8 are summed
\* by one loop).
RECURSIVE fsum(_)
fsum(a) ==
    IF a = << >> THEN 0
    ELSE fadd(fsum(SubSeq(a, 1, Len(a) - 1)), a[Len(a)])

HasNan(v) == \E i \in 1..Len(v) : v[i].nan
Xs(v) == [i \in 1..Len(v) |-> v[i].x]

\* np.mean(v): nan for an empty array or one that holds a nan.
np_mean(v) ==
    IF v = << >> \/ HasNan(v) THEN nan
    ELSE F(fdiv(fsum(Xs(v)), Len(v) * One))

\* np.std(v): the root of the mean of the squared deviations from the mean.
np_std(v) ==
    IF v = << >> \/ HasNan(v) THEN nan
    ELSE LET m == np_mean(v).x
             x == [i \in 1..Len(v) |-> fsub(v[i].x, m)]
             sq == [i \in 1..Len(v) |-> fmul(x[i], x[i])]
         IN  F(fsqrt(fdiv(fsum(sq), Len(v) * One)))

\* pe_mean + std_threshold * pe_std, lines 370 and 504
upper_threshold(mean, k, std) ==
    IF mean.nan \/ std.nan THEN nan ELSE F(fadd(mean.x, fmul(k, std.x)))

\* pe_mean - std_threshold * pe_std, lines 371 and 504
lower_threshold(mean, k, std) ==
    IF mean.nan \/ std.nan THEN nan ELSE F(fsub(mean.x, fmul(k, std.x)))

\* Comparisons with nan are False.
gt(a, b) == ~a.nan /\ ~b.nan /\ a.x > b.x
lt(a, b) == ~a.nan /\ ~b.nan /\ a.x < b.x

\* pe_ratios > upper_threshold, pe_ratios < lower_threshold (lines 377-378)
overvalued_mask(v, upper) == [i \in 1..Len(v) |-> gt(v[i], upper)]

\* The lower comparison written with > as well.
undervalued_mask_gt(v, lower) == [i \in 1..Len(v) |-> gt(v[i], lower)]

undervalued_mask(v, lower) == [i \in 1..Len(v) |-> lt(v[i], lower)]

----------------------------------------------------------------------------
(* The banding of plot_pe_ratio_with_price (lines 368-411) and of          *)
(* plot_time_series (lines 500-509).  Dates are the positions 1..n of the  *)
(* series, which both functions scan in date order.                        *)

MaxSeries == 5

\* Two values whose significands use every bit (as 0.1 does in float64),
\* and nan.
SeriesValues == {F(Pow2(MantissaBits) - 3), F(Pow2(MantissaBits) - 1), nan}

\* std_threshold / sigma: 0, 0.5, 1.5 (the default) and -1.
Multipliers == {0, One \div 2, (3 * One) \div 2, 0 - One}

SeriesSet == UNION {[1..n -> SeriesValues] : n \in 0..MaxSeries}

Span(color, from, to) == [color |-> color, from |-> from, to |-> to]

\* The region a sweep closes at position i ends at i itself.
region_end_at_i(i) == i

\* dates[i-1] if i > 0 else dates[0], lines 393 and 403 (positions from 1)
region_end(i) == IF i > 1 THEN i - 1 ELSE 1

\* Lines 505-509 for one mask: the positions where the mask, padded with
\* False on both sides, changes; each pair of changes is a region.
diff_regions(mask, color) ==
    LET n == Len(mask)
        padded(j) == IF j < 1 \/ j > n THEN FALSE ELSE mask[j]
        starts == SortedSeq({c \in 1..(n + 1) : padded(c - 1) # padded(c)})
        pairs == {i \in 1..Len(starts) : i % 2 = 1 /\ i + 1 <= Len(starts)}
    IN  [j \in 1..Cardinality(pairs) |->
            Span(color, starts[2 * j - 1], starts[2 * j] - 1)]

InitBand ==
    /\ _df_eps = ExampleTable
    /\ _price_df = << >>
    /\ _type = "forward"
    /\ ret = NoCall
    /\ seen = NothingSeen
    /\ run = NoRun
    /\ \E v \in SeriesSet, k \in Multipliers :
          band = [pc |-> "start", pe_ratios |-> v, std_threshold |-> k,
                  upper_threshold |-> nan, lower_threshold |-> nan,
                  overvalued_mask |-> << >>, undervalued_mask |-> << >>,
                  i |-> 1, in_overvalued |-> FALSE, in_undervalued |-> FALSE,
                  overvalued_start |-> 0, undervalued_start |-> 0,
                  spans |-> << >>, ts_done |-> FALSE, ts_spans |-> << >>]

\* Lines 368-384: statistics, thresholds, masks, and the flags cleared.
Thresholds ==
    /\ band.pc = "start"
    /\ LET pe_mean == np_mean(band.pe_ratios)
           pe_std == np_std(band.pe_ratios)
           upper == upper_threshold(pe_mean, band.std_threshold, pe_std)
           lower == lower_threshold(pe_mean, band.std_threshold, pe_std)
       IN  band' = [band EXCEPT !.pc = "loop",
                                !.upper_threshold = upper,
                                !.lower_threshold = lower,
                                !.overvalued_mask = overvalued_mask(band.pe_ratios, upper),
                                !.undervalued_mask = undervalued_mask(band.pe_ratios, lower),
                                !.i = 1,
                                !.in_overvalued = FALSE,
                                !.in_undervalued = FALSE]
    /\ UNCHANGED <<_df_eps, _price_df, _type, ret, seen, run>>

\* One iteration of the loop of lines 386-405.
SweepStep ==
    /\ band.pc = "loop"
    /\ band.i <= Len(band.pe_ratios)
    /\ LET i == band.i
           over == band.overvalued_mask[i]
           under == band.undervalued_mask[i]
           close_over == ~over /\ band.in_overvalued
           close_under == ~under /\ band.in_undervalued
           spans1 == IF close_over
                     THEN Append(band.spans,
                                 Span("red", band.overvalued_start, region_end(i)))
                     ELSE band.spans
           spans2 == IF close_under
                     THEN Append(spans1,
                                 Span("blue", band.undervalued_start, region_end(i)))
                     ELSE spans1
       IN  band' = [band EXCEPT
                      !.i = i + 1,
                      !.in_overvalued = over,
                      !.in_undervalued = under,
                      !.overvalued_start =
                          IF over /\ ~band.in_overvalued THEN i ELSE @,
                      !.undervalued_start =
                          IF under /\ ~band.in_undervalued THEN i ELSE @,
                      !.spans = spans2]
    /\ UNCHANGED <<_df_eps, _price_df, _type, ret, seen, run>>

\* Lines 407-411: a region still open after the loop ends at dates[-1].
SweepEnd ==
    /\ band.pc = "loop"
    /\ band.i > Len(band.pe_ratios)
    /\ LET n == Len(band.pe_ratios)
           spans1 == IF band.in_overvalued
                     THEN Append(band.spans, Span("red", band.overvalued_start, n))
                     ELSE band.spans
           spans2 == IF band.in_undervalued
                     THEN Append(spans1, Span("blue", band.undervalued_start, n))
                     ELSE spans1
       IN  band' = [band EXCEPT !.pc = "done", !.spans = spans2]
    /\ UNCHANGED <<_df_eps, _price_df, _type, ret, seen, run>>

\* plot_time_series on the same series and sigma, lines 500-509.
PlotTimeSeries ==
    /\ band.pc # "none"
    /\ ~band.ts_done
    /\ LET v == band.pe_ratios
           mean == np_mean(v)
           std == np_std(v)
           upper == upper_threshold(mean, band.std_threshold, std)
           lower == lower_threshold(mean, band.std_threshold, std)
       IN  band' = [band EXCEPT
                      !.ts_done = TRUE,
                      !.ts_spans = diff_regions(overvalued_mask(v, upper), "red")
                                   \o diff_regions(undervalued_mask(v, lower), "blue")]
    /\ UNCHANGED <<_df_eps, _price_df, _type, ret, seen, run>>

NextBand == Thresholds \/ SweepStep \/ SweepEnd \/ PlotTimeSeries

SpecBand == InitBand /\ [][NextBand]_vars

----------------------------------------------------------------------------
(* The chart extraction run, scripts/data_collection/extract_eps_charts.py *)
(* main (lines 32-126).  A PDF file is its name,                           *)
(* EarningsInsight_<date_str>_<suffix>.pdf, and what opening it gives.     *)
(* Days are day numbers of one month.                                      *)

MaxPdfs == 4

\* The date parts of the file names in string order, "draft" being no date.
DateStrs == <<"20161202", "20161209", "20161216", "draft">>

PdfNames ==
    {[date_str |-> "20161202", suffix |-> 1], [date_str |-> "20161209", suffix |-> 1],
     [date_str |-> "20161209", suffix |-> 2], [date_str |-> "20161216", suffix |-> 1],
     [date_str |-> "draft", suffix |-> 1]}

\* What a PDF holds: a page with the keyword, no such page, or a file that
\* pdfplumber fails on.
PdfKinds == {"chart", "no chart", "corrupt"}

RECURSIVE PdfDirs(_)
PdfDirs(n) ==
    IF n = 0 THEN {{}}
    ELSE LET smaller == PdfDirs(n - 1)
         IN  smaller \cup
             {d \cup {[date_str |-> nm.date_str, suffix |-> nm.suffix, kind |-> k]} :
                 d \in {x \in smaller : Cardinality(x) = n - 1},
                 nm \in PdfNames, k \in PdfKinds}

\* A directory holds a name once.
Directories ==
    {d \in PdfDirs(MaxPdfs) :
        \A p, q \in d : (p.date_str = q.date_str /\ p.suffix = q.suffix) => p = q}

\* The Report_Date column of the EPS table file.
CsvFiles == SUBSET {2, 8, 9}

\* The images in the output directory before the run.
ImageDirs == SUBSET {"20161209", "20161216"}

\* 0 stands for None.
NoDate == 0

\* The last Report_Date of the EPS table file, None without rows.
get_last_date_from_csv(csv) ==
    IF csv = {} THEN NoDate ELSE CHOOSE d \in csv : \A e \in csv : e <= d

\* datetime.strptime(date_str, '%Y%m%d'), line 68: the day, NoDate for the
\* ValueError.
strptime(date_str) ==
    CASE date_str = "20161202" -> 2
      [] date_str = "20161209" -> 9
      [] date_str = "20161216" -> 16
      [] OTHER -> NoDate

\* The place of a file name in string order.
NameOrder(p) ==
    10 * (CHOOSE r \in 1..Len(DateStrs) : DateStrs[r] = p.date_str) + p.suffix

\* sorted(glob.glob(...), reverse=True), line 35
sorted_reverse(dir) ==
    LET keys == SortedSeq({NameOrder(p) : p \in dir})
        n == Len(keys)
    IN  [j \in 1..n |-> CHOOSE p \in dir : NameOrder(p) = keys[n + 1 - j]]

\* last_date + timedelta(days=1), lines 39-46
min_date_of(last_date) == IF last_date = NoDate THEN NoDate ELSE last_date + 1

\* min_date and report_date_dt < min_date, line 74
before_min_date(report_date_dt, min_date) ==
    min_date # NoDate /\ report_date_dt < min_date

\* OUTPUT_DIR / f"{date_str}.png", line 79
output_path(date_str) == date_str

\* An exception inside the try ends the run.
next_after_error_raised(i, n) == n + 1

\* except Exception: print, lines 120-121; the loop goes on with the next
\* file.
next_after_error(i, n) == i + 1

InitExtract ==
    /\ _df_eps = ExampleTable
    /\ _price_df = << >>
    /\ _type = "forward"
    /\ ret = NoCall
    /\ seen = NothingSeen
    /\ band = NoBand
    /\ \E dir \in Directories, csv \in CsvFiles, images \in ImageDirs :
          run = [pc |-> "start", pdf_dir |-> dir, csv |-> csv, existing |-> images,
                 images |-> images, pdf_files |-> << >>, min_date |-> NoDate,
                 i |-> 0, extracted |-> 0, skipped |-> 0, saved |-> << >>]

Pdf == run.pdf_files[run.i]
InLoop == run.pc = "loop" /\ run.i <= Len(run.pdf_files)

\* Lines 35-57: the file list, the minimum date, the counters; the run
\* returns at once when there is neither a table nor a file.
Start ==
    /\ run.pc = "start"
    /\ LET files == sorted_reverse(run.pdf_dir)
           last_date == get_last_date_from_csv(run.csv)
       IN  run' = [run EXCEPT !.pdf_files = files,
                              !.min_date = min_date_of(last_date),
                              !.i = 1,
                              !.pc = IF last_date = NoDate /\ files = << >>
                                     THEN "returned" ELSE "loop"]
    /\ UNCHANGED <<_df_eps, _price_df, _type, ret, seen, band>>

\* Lines 66-71: the date part of the name is no date.
BadName ==
    /\ InLoop
    /\ strptime(Pdf.date_str) = NoDate
    /\ run' = [run EXCEPT !.i = @ + 1]
    /\ UNCHANGED <<_df_eps, _price_df, _type, ret, seen, band>>

\* Lines 74-76
BeforeMinDate ==
    /\ InLoop
    /\ strptime(Pdf.date_str) # NoDate
    /\ before_min_date(strptime(Pdf.date_str), run.min_date)
    /\ run' = [run EXCEPT !.skipped = @ + 1, !.i = @ + 1]
    /\ UNCHANGED <<_df_eps, _price_df, _type, ret, seen, band>>

\* Lines 79-82
AlreadyExtracted ==
    /\ InLoop
    /\ strptime(Pdf.date_str) # NoDate
    /\ ~before_min_date(strptime(Pdf.date_str), run.min_date)
    /\ output_path(Pdf.date_str) \in run.images
    /\ run' = [run EXCEPT !.skipped = @ + 1, !.i = @ + 1]
    /\ UNCHANGED <<_df_eps, _price_df, _type, ret, seen, band>>

Opened ==
    /\ InLoop
    /\ strptime(Pdf.date_str) # NoDate
    /\ ~before_min_date(strptime(Pdf.date_str), run.min_date)
    /\ output_path(Pdf.date_str) \notin run.images

\* Lines 84-118: the first page with a keyword (or the page after it) is
\* saved and the pages after it are not looked at.
SaveChart ==
    /\ Opened
    /\ Pdf.kind = "chart"
    /\ run' = [run EXCEPT !.images = @ \cup {output_path(Pdf.date_str)},
                          !.saved = Append(@, [pdf |-> run.i,
                                               path |-> output_path(Pdf.date_str)]),
                          !.extracted = @ + 1,
                          !.i = @ + 1]
    /\ UNCHANGED <<_df_eps, _price_df, _type, ret, seen, band>>

\* Lines 84-88: no page holds a keyword.
NoChartPage ==
    /\ Opened
    /\ Pdf.kind = "no chart"
    /\ run' = [run EXCEPT !.i = @ + 1]
    /\ UNCHANGED <<_df_eps, _price_df, _type, ret, seen, band>>

\* Lines 84-121: an exception while the file is opened, read or saved.  One
\* raised by save (line 108) may leave the image file behind.
Error ==
    /\ Opened
    /\ Pdf.kind = "corrupt"
    /\ \E file_left \in BOOLEAN :
          run' = [run EXCEPT
                    !.images = IF file_left THEN @ \cup {output_path(Pdf.date_str)} ELSE @,
                    !.saved = IF file_left
                              THEN Append(@, [pdf |-> run.i,
                                              path |-> output_path(Pdf.date_str)])
                              ELSE @,
                    !.i = next_after_error(run.i, Len(run.pdf_files))]
    /\ UNCHANGED <<_df_eps, _price_df, _type, ret, seen, band>>

\* Lines 59 and 123-126: the list is exhausted, the counts are printed.
Finish ==
    /\ run.pc = "loop"
    /\ run.i > Len(run.pdf_files)
    /\ run' = [run EXCEPT !.pc = "done"]
    /\ UNCHANGED <<_df_eps, _price_df, _type, ret, seen, band>>

NextExtract ==
    \/ Start
    \/ BadName
    \/ BeforeMinDate
    \/ AlreadyExtracted
    \/ SaveChart
    \/ NoChartPage
    \/ Error
    \/ Finish

SpecExtract == InitExtract /\ [][NextExtract]_vars

----------------------------------------------------------------------------
(* Properties of the banding.                                              *)

IsConstant(v) == \A i, j \in 1..Len(v) : v[i] = v[j]

\* C11: for a series whose values are all equal, neither function flags a
\* position or draws a region, whatever the multiplier and the length.
C11_ConstantNeverFlagged ==
    (band.pc \in {"loop", "done"} /\ IsConstant(band.pe_ratios)) =>
        /\ \A i \in 1..Len(band.pe_ratios) :
              ~band.overvalued_mask[i] /\ ~band.undervalued_mask[i]
        /\ band.spans = << >>
        /\ band.ts_done => band.ts_spans = << >>

\* The positions a flag holds at, from the values and the threshold.
Flagged(color) ==
    {i \in 1..Len(band.pe_ratios) :
        IF color = "red" THEN gt(band.pe_ratios[i], band.upper_threshold)
        ELSE lt(band.pe_ratios[i], band.lower_threshold)}

\* The maximal runs of consecutive flagged positions.
Runs(color) ==
    {Span(color, a, b) : a \in 1..Len(band.pe_ratios), b \in 1..Len(band.pe_ratios)} \cap
    {sp \in [color : {color}, from : 1..Len(band.pe_ratios), to : 1..Len(band.pe_ratios)] :
        /\ sp.from <= sp.to
        /\ \A i \in sp.from..sp.to : i \in Flagged(color)
        /\ (sp.from - 1) \notin Flagged(color)
        /\ (sp.to + 1) \notin Flagged(color)}

SpansOf(spans, color) == {spans[j] : j \in {x \in 1..Len(spans) : spans[x].color = color}}

NoRepeat(spans) == \A i, j \in 1..Len(spans) : spans[i] = spans[j] => i = j

\* C12: once the sweep is over, the regions it drew for a flag are exactly
\* the maximal runs of flagged positions (so every flagged position is in
\* one region, no other position is in any, and a run reaching the end is
\* closed at the last position), each drawn once; plot_time_series draws
\* the same regions.
C12_RegionsAreMaximalRuns ==
    /\ band.pc = "done" =>
          /\ NoRepeat(band.spans)
          /\ \A color \in {"red", "blue"} : SpansOf(band.spans, color) = Runs(color)
    /\ (band.pc = "done" /\ band.ts_done) =>
          /\ NoRepeat(band.ts_spans)
          /\ \A color \in {"red", "blue"} :
                SpansOf(band.ts_spans, color) = SpansOf(band.spans, color)

\* A run closed inside the series, a run of one position, and a run that is
\* still open at the end, drawn by both functions.
C12_Witness ==
    /\ band.pc = "done" /\ band.ts_done
    /\ \E a, b \in SpansOf(band.spans, "red") :
          /\ a.to < Len(band.pe_ratios) /\ a.from < a.to
          /\ b.to = Len(band.pe_ratios)
    /\ \E c \in SpansOf(band.spans, "blue") : c.from = c.to
    /\ SpansOf(band.ts_spans, "red") = SpansOf(band.spans, "red")

Covered(spans, color) ==
    {i \in 1..Len(band.pe_ratios) :
        \E sp \in SpansOf(spans, color) : sp.from <= i /\ i <= sp.to}

NeverBoth ==
    band.pc \in {"loop", "done"} =>
        /\ ~(band.in_overvalued /\ band.in_undervalued)
        /\ Covered(band.spans, "red") \cap Covered(band.spans, "blue") = {}

\* C13 as stated: for every multiplier the two flags are never both set and
\* no position is in a region of each colour.
C13_NeverBothAnyMultiplier == NeverBoth

\* C13 for multipliers >= 0.
C13_NeverBothNonNegative ==
    (band.pc # "none" /\ band.std_threshold >= 0) => NeverBoth

\* A non-negative multiplier, and regions of both colours drawn.
C13_Witness ==
    /\ band.pc = "done" /\ band.std_threshold >= 0
    /\ SpansOf(band.spans, "red") # {}
    /\ SpansOf(band.spans, "blue") # {}

----------------------------------------------------------------------------
(* Properties of the chart extraction run.                                 *)

Files == 1..Len(run.pdf_files)
ReportDate(i) == strptime(run.pdf_files[i].date_str)
ImageName(i) == run.pdf_files[i].date_str
SavedBy(i) == {j \in 1..Len(run.saved) : run.saved[j].pdf = i}

\* The date of the file name is a date after every Report_Date of the table.
Dated(i) == ReportDate(i) # NoDate
AfterTable(i) == Dated(i) /\ \A d \in run.csv : ReportDate(i) > d

\* The image of file i was there when the run came to it.
ImageWasThere(i) ==
    \/ ImageName(i) \in run.existing
    \/ \E j \in 1..Len(run.saved) :
          run.saved[j].pdf < i /\ run.saved[j].path = ImageName(i)

\* C14: a run writes at most one image for a PDF, under that PDF's date; it
\* writes none for a PDF dated on or before the last Report_Date of the
\* table; it never writes over an image that is there, and counts the PDF
\* as skipped; a PDF that fails does not keep the later ones from being
\* extracted; extracted + skipped never exceeds the number of PDFs.
C14_ExtractionRun ==
    run.pc \in {"loop", "returned", "done"} =>
        /\ \A i \in Files :
              /\ Cardinality(SavedBy(i)) <= 1
              /\ \A j \in SavedBy(i) : run.saved[j].path = ImageName(i)
        /\ \A j \in 1..Len(run.saved) : AfterTable(run.saved[j].pdf)
        /\ \A j \in 1..Len(run.saved) : run.saved[j].path \notin run.existing
        /\ \A j, k \in 1..Len(run.saved) :
              run.saved[j].path = run.saved[k].path => j = k
        /\ run.existing \subseteq run.images
        /\ run.extracted + run.skipped <= Len(run.pdf_files)
        /\ run.pc = "done" =>
              /\ run.skipped =
                   Cardinality({i \in Files :
                                   Dated(i) /\ (~AfterTable(i) \/ ImageWasThere(i))})
              /\ run.extracted =
                   Cardinality({i \in Files :
                                   SavedBy(i) # {} /\ run.pdf_files[i].kind = "chart"})
              /\ \A i \in Files :
                    (AfterTable(i) /\ run.pdf_files[i].kind = "chart") =>
                        ImageName(i) \in run.images

\* A finished run in which a PDF failed and a later one was extracted, one
\* PDF was skipped for its date and one for its image.
C14_Witness ==
    /\ run.pc = "done"
    /\ \E i, j \in Files :
          /\ i < j
          /\ run.pdf_files[i].kind = "corrupt"
          /\ AfterTable(i) /\ ~ImageWasThere(i)
          /\ SavedBy(j) # {} /\ run.pdf_files[j].kind = "chart"
    /\ \E a, b \in Files :
          /\ Dated(a) /\ ~AfterTable(a)
          /\ AfterTable(b) /\ ImageWasThere(b)
    /\ run.extracted = 1
    /\ run.skipped = 2

====
